---- MODULE Spec2Model ----
(***************************************************************************)
(* A model of src/sfnt/ttcolr.c: the loader of the `COLR' table, the glyph *)
(* index (binary search), the layer iterator, the paint reader, the color  *)
(* stop iterator and the layer compositor.                                 *)
(*                                                                         *)
(* Memory is modelled as a byte sequence `mem': the first `table_size'     *)
(* bytes are the frame of the `COLR' table, the bytes after them are       *)
(* whatever happens to be mapped behind the frame.  A pointer into the     *)
(* table is the 0-based index of a byte of `mem'.  A read at an index      *)
(* >= table_size is an out-of-bounds read: it yields the byte that is      *)
(* mapped there, or faults when nothing is mapped (index >= Len(mem)).     *)
(***************************************************************************)
EXTENDS Integers, Sequences, FiniteSets, TLC

VARIABLES
    mem,          \* table frame followed by the memory mapped behind it
    table_size,   \* length of the table frame (goto_table's out parameter)
    ulong_bits,   \* width of FT_ULong (unsigned long) in this build: 32 or 64
    face,         \* the TT_Face fields the code reads, face->colr excepted
    colr,         \* face->colr: <<>> (NULL) or <<the Colr structure>>
    call,         \* the last call made: its name, return value and outputs
    read_end,     \* 1 + the highest index of mem the last call read (0: none)
    iterator,     \* the caller's FT_LayerIterator
    history,      \* what the caller of the layer iterator has observed
    paint,        \* the caller's FT_COLR_Paint, its color stop iterator included
    dstSlot       \* the destination glyph slot of the compositor

vars == <<mem, table_size, ulong_bits, face, colr, call, read_end,
          iterator, history, paint, dstSlot>>

----------------------------------------------------------------------------
(* Bounds of the model.                                                    *)

\* largest table frame drawn for the loader
MaxTableSize == 24
\* largest number of base glyph records / layer records declared in a header
MaxCount == 2
\* largest number of records in a searched base glyph array
MaxRecords == 3
\* largest glyph id stored in a drawn record
MaxGlyphId == 4
\* largest number of layer records in a drawn table, and largest first
\* layer index and layer count of a drawn base glyph record
MaxLayers == 3
\* number of calls made with one layer iterator
MaxCalls == 5
\* face->num_glyphs and face->palette_data.num_palette_entries of the
\* drawn face
NumGlyphs == 4
NumPaletteEntries == 2
\* largest number of LayerV1Records of the drawn base glyph
MaxPaintLayers == 2
\* largest number of color stops a drawn color line declares
MaxStops == 2
\* largest number of components composed onto one canvas
MaxBlends == 2

----------------------------------------------------------------------------
(* Program constants.                                                      *)

BASE_GLYPH_SIZE == 6
BASE_GLYPH_V1_SIZE == 6
LAYER_V1_RECORD_SIZE == 6
COLOR_STOP_SIZE == 6
LAYER_SIZE == 4
COLR_HEADER_SIZE == 14

\* the null pointer; every pointer into mem is >= 0
NULL == 0 - 1

----------------------------------------------------------------------------
(* Big-endian field access (FT_NEXT_xxx/FT_PEEK_xxx of ftstream.h).        *)

Max(a, b) == IF a >= b THEN a ELSE b
Min(a, b) == IF a <= b THEN a ELSE b

\* the byte of mem at 0-based index p
Byte(m, p) == m[p + 1]

\* are the n bytes at p mapped at all?
Mapped(m, p, n) == p >= 0 /\ p + n <= Len(m)

FT_PEEK_USHORT(m, p) == Byte(m, p) * 256 + Byte(m, p + 1)

\* (FT_Short) of the 16 bits at p
FT_PEEK_SHORT(m, p) ==
    LET u == FT_PEEK_USHORT(m, p) IN IF u >= 32768 THEN u - 65536 ELSE u

\* An FT_ULong read from the table is kept as its two 16-bit limbs
\* <<high, low>>: the 32-bit value high * 65536 + low.
FT_PEEK_ULONG(m, p) == <<FT_PEEK_USHORT(m, p), FT_PEEK_USHORT(m, p + 2)>>

\* u < n and u = 0, for a limb pair u and an integer 0 <= n < 2^31
ULongLess(u, n) ==
    \/ u[1] < n \div 65536
    \/ u[1] = n \div 65536 /\ u[2] < n % 65536
ULongIsZero(u) == u[1] = 0 /\ u[2] = 0

\* the integer a limb pair stands for, when it is below 2^31
ULongToInt(u) == u[1] * 65536 + u[2]

\* (FT_Long) of the 32 bits at p, two's complement
FT_PEEK_LONG(m, p) ==
    LET b0 == Byte(m, p)
        s0 == IF b0 >= 128 THEN b0 - 256 ELSE b0
    IN  ((s0 * 256 + Byte(m, p + 1)) * 256 + Byte(m, p + 2)) * 256
            + Byte(m, p + 3)

\* the encoders that lay a table out, the inverse of the readers above
U16(v) == <<(v \div 256) % 256, v % 256>>
U32(v) == <<(v \div 16777216) % 256, (v \div 65536) % 256,
            (v \div 256) % 256, v % 256>>
Zeros(n) == [i \in 1..n |-> 0]
Prefix(s, n) == SubSeq(s, 1, Min(n, Len(s)))

\* `num * size > room' as C computes it when num is an FT_ULong of `bits'
\* bits: the product wraps modulo 2^bits.  num is the limb pair of a 32-bit
\* value read from the table, size a record size, room an integer.
ULongProductExceeds(num, size, room, bits) ==
    LET lo   == num[2] * size
        hi   == num[1] * size + lo \div 65536
        hi_w == IF bits = 32 THEN hi % 65536 ELSE hi
        lo_w == lo % 65536
    IN  \/ hi_w > room \div 65536
        \/ hi_w = room \div 65536 /\ lo_w > room % 65536

----------------------------------------------------------------------------
(* tt_face_load_colr                                                       *)

LoadFail(e, rd) == [error |-> e, colr |-> <<>>, read_end |-> rd]

\* version 1 part of the loader: lines 151-167, then 169-176
LoadV1(m, ts, bits, c) ==
    IF ~Mapped(m, 14, 4) THEN LoadFail("Fault", 18)
    ELSE
    LET base_glyphs_v1_offset == FT_PEEK_ULONG(m, 14) IN
    IF ~ULongLess(base_glyphs_v1_offset, ts) THEN LoadFail("Invalid_Table", 18)
    ELSE
    LET p  == ULongToInt(base_glyphs_v1_offset)
        rd == Max(18, p + 4)
    IN
    IF ~Mapped(m, p, 4) THEN LoadFail("Fault", rd)
    ELSE
    LET num_base_glyphs_v1 == FT_PEEK_ULONG(m, p) IN
    IF ULongProductExceeds(num_base_glyphs_v1, BASE_GLYPH_V1_SIZE,
                           ts - p, bits)
    THEN LoadFail("Invalid_Table", rd)
    ELSE [error    |-> "Ok",
          colr     |-> <<[c EXCEPT
                            \* the FT_ULong is stored in an FT_UShort field
                            !.num_base_glyphs_v1 = num_base_glyphs_v1[2],
                            !.base_glyphs_v1     = p]>>,
          read_end |-> rd]

\* env: which of the collaborators succeed (CPAL present, goto_table,
\* FT_FRAME_EXTRACT, FT_NEW)
tt_face_load_colr(m, ts, bits, env) ==
    IF ~env.cpal THEN LoadFail("Invalid_File_Format", 0)
    ELSE IF ~env.goto_table THEN LoadFail("Table_Missing", 0)
    ELSE IF ts < COLR_HEADER_SIZE THEN LoadFail("Invalid_Table", 0)
    ELSE IF ~env.frame THEN LoadFail("Invalid_Stream_Operation", 0)
    ELSE IF ~env.new THEN LoadFail("Out_Of_Memory", 0)
    ELSE
    LET version == FT_PEEK_USHORT(m, 0) IN
    IF version # 0 /\ version # 1 THEN LoadFail("Invalid_Table", 2)
    ELSE
    LET num_base_glyphs   == FT_PEEK_USHORT(m, 2)
        base_glyph_offset == FT_PEEK_ULONG(m, 4)
    IN
    IF ~ULongLess(base_glyph_offset, ts) THEN LoadFail("Invalid_Table", 8)
    ELSE IF num_base_glyphs * BASE_GLYPH_SIZE
              > ts - ULongToInt(base_glyph_offset)
    THEN LoadFail("Invalid_Table", 8)
    ELSE
    LET layer_offset == FT_PEEK_ULONG(m, 8)
        num_layers   == FT_PEEK_USHORT(m, 12)
    IN
    IF ~ULongLess(layer_offset, ts) THEN LoadFail("Invalid_Table", 14)
    ELSE IF num_layers * LAYER_SIZE > ts - ULongToInt(layer_offset)
    THEN LoadFail("Invalid_Table", 14)
    ELSE
    LET c == [version            |-> version,
              num_base_glyphs    |-> num_base_glyphs,
              num_layers         |-> num_layers,
              base_glyphs        |-> ULongToInt(base_glyph_offset),
              layers             |-> ULongToInt(layer_offset),
              \* FT_NEW zero-fills the structure
              num_base_glyphs_v1 |-> 0,
              base_glyphs_v1     |-> NULL,
              table              |-> 0,
              table_size         |-> ts]
    IN
    IF version = 1 THEN LoadV1(m, ts, bits, c)
    ELSE [error |-> "Ok", colr |-> <<c>>, read_end |-> 14]

----------------------------------------------------------------------------
(* find_base_glyph_record, find_base_glyph_v1_record                       *)

\* the result of a search that read an unmapped byte
FindFault(probes, rd) ==
    [found |-> 0, fault |-> TRUE, probes |-> probes, read_end |-> rd]

\* The while loop of find_base_glyph_record from the state (min, max).
\* probes counts the iterations made, rd is 1 + the highest index read.
RECURSIVE FindLoop(_, _, _, _, _, _, _)
FindLoop(m, base_glyph_begin, min, max, glyph_id, probes, rd) ==
    IF ~(min <= max)
    THEN [found |-> 0, fault |-> FALSE, probes |-> probes, read_end |-> rd]
    ELSE
    LET mid == min + (max - min) \div 2
        p   == base_glyph_begin + mid * BASE_GLYPH_SIZE
    IN
    IF ~Mapped(m, p, 2) THEN FindFault(probes + 1, Max(rd, p + 2))
    ELSE
    LET gid == FT_PEEK_USHORT(m, p) IN
    IF gid < glyph_id
    THEN FindLoop(m, base_glyph_begin, mid + 1, max, glyph_id, probes + 1,
                  Max(rd, p + 2))
    ELSE IF gid > glyph_id
    THEN FindLoop(m, base_glyph_begin, min, mid - 1, glyph_id, probes + 1,
                  Max(rd, p + 2))
    ELSE IF ~Mapped(m, p, 6) THEN FindFault(probes + 1, Max(rd, p + 6))
    ELSE [found    |-> 1,
          fault    |-> FALSE,
          record   |-> [gid               |-> gid,
                        first_layer_index |-> FT_PEEK_USHORT(m, p + 2),
                        num_layers        |-> FT_PEEK_USHORT(m, p + 4)],
          probes   |-> probes + 1,
          read_end |-> Max(rd, p + 6)]

\* the search with its lower bound off by one: the first record is skipped
find_base_glyph_record_min1(m, base_glyph_begin, num_base_glyph, glyph_id) ==
    FindLoop(m, base_glyph_begin, 1, num_base_glyph - 1, glyph_id, 0, 0)

find_base_glyph_record(m, base_glyph_begin, num_base_glyph, glyph_id) ==
    FindLoop(m, base_glyph_begin, 0, num_base_glyph - 1, glyph_id, 0, 0)

\* The while loop of find_base_glyph_v1_record: the records start 4 bytes
\* after base_glyph_begin, behind the element count of the array.
RECURSIVE FindV1Loop(_, _, _, _, _, _, _)
FindV1Loop(m, base_glyph_begin, min, max, glyph_id, probes, rd) ==
    IF ~(min <= max)
    THEN [found |-> 0, fault |-> FALSE, probes |-> probes, read_end |-> rd]
    ELSE
    LET mid == min + (max - min) \div 2
        p   == base_glyph_begin + 4 + mid * BASE_GLYPH_V1_SIZE
    IN
    IF ~Mapped(m, p, 2) THEN FindFault(probes + 1, Max(rd, p + 2))
    ELSE
    LET gid == FT_PEEK_USHORT(m, p) IN
    IF gid < glyph_id
    THEN FindV1Loop(m, base_glyph_begin, mid + 1, max, glyph_id, probes + 1,
                    Max(rd, p + 2))
    ELSE IF gid > glyph_id
    THEN FindV1Loop(m, base_glyph_begin, min, mid - 1, glyph_id, probes + 1,
                    Max(rd, p + 2))
    ELSE IF ~Mapped(m, p, 6) THEN FindFault(probes + 1, Max(rd, p + 6))
    ELSE [found    |-> 1,
          fault    |-> FALSE,
          record   |-> [gid                |-> gid,
                        layer_array_offset |-> FT_PEEK_ULONG(m, p + 2)],
          probes   |-> probes + 1,
          read_end |-> Max(rd, p + 6)]

find_base_glyph_v1_record(m, base_glyph_begin, num_base_glyph, glyph_id) ==
    FindV1Loop(m, base_glyph_begin, 0, num_base_glyph - 1, glyph_id, 0, 0)

----------------------------------------------------------------------------
(* tt_face_get_colr_layer                                                  *)

\* A return of tt_face_get_colr_layer that read no layer record: the
\* caller's glyph index and color index are left as they were.
LayerNone(it, rd, fault) ==
    [ret |-> 0, iterator |-> it, wrote |-> FALSE, rejected |-> FALSE,
     fault |-> fault, read_end |-> rd]

\* the end test with > for >=: one record more than the count is read
LayerReadOneMore(m, fc, it, rd) ==
    IF it.layer > it.num_layers THEN LayerNone(it, rd, FALSE)
    ELSE IF ~Mapped(m, it.p, LAYER_SIZE)
    THEN LayerNone(it, Max(rd, it.p + LAYER_SIZE), TRUE)
    ELSE
    LET aglyph_index == FT_PEEK_USHORT(m, it.p)
        acolor_index == FT_PEEK_USHORT(m, it.p + 2)
        invalid      == \/ aglyph_index >= fc.num_glyphs
                        \/ /\ acolor_index # 65535
                           /\ acolor_index >= fc.num_palette_entries
    IN  [ret          |-> IF invalid THEN 0 ELSE 1,
         iterator     |-> [it EXCEPT !.p = it.p + LAYER_SIZE,
                                     !.layer = IF invalid THEN it.layer
                                               ELSE it.layer + 1],
         wrote        |-> TRUE,
         aglyph_index |-> aglyph_index,
         acolor_index |-> acolor_index,
         rejected     |-> invalid,
         fault        |-> FALSE,
         read_end     |-> Max(rd, it.p + LAYER_SIZE)]

\* lines 282-295: the read of the record at iterator->p and its validation
LayerRead(m, fc, it, rd) ==
    IF it.layer >= it.num_layers THEN LayerNone(it, rd, FALSE)
    ELSE IF ~Mapped(m, it.p, LAYER_SIZE)
    THEN LayerNone(it, Max(rd, it.p + LAYER_SIZE), TRUE)
    ELSE
    LET aglyph_index == FT_PEEK_USHORT(m, it.p)
        acolor_index == FT_PEEK_USHORT(m, it.p + 2)
        \* the two FT_NEXT_USHORT have advanced iterator->p
        it2          == [it EXCEPT !.p = it.p + LAYER_SIZE]
        invalid      == \/ aglyph_index >= fc.num_glyphs
                        \/ /\ acolor_index # 65535
                           /\ acolor_index >= fc.num_palette_entries
    IN  [ret          |-> IF invalid THEN 0 ELSE 1,
         iterator     |-> IF invalid THEN it2
                          ELSE [it2 EXCEPT !.layer = it.layer + 1],
         wrote        |-> TRUE,
         aglyph_index |-> aglyph_index,
         acolor_index |-> acolor_index,
         rejected     |-> invalid,
         fault        |-> FALSE,
         read_end     |-> Max(rd, it.p + LAYER_SIZE)]

\* cl is face->colr, fc the face, it the iterator as the caller passes it
tt_face_get_colr_layer(m, cl, fc, base_glyph, it) ==
    IF cl = <<>> THEN LayerNone(it, 0, FALSE)
    ELSE IF it.p # NULL THEN LayerRead(m, fc, it, 0)
    ELSE
    \* first call to function
    LET it0 == [it EXCEPT !.layer = 0]
        f   == find_base_glyph_record(m, cl[1].base_glyphs,
                                      cl[1].num_base_glyphs, base_glyph)
    IN
    IF f.fault THEN LayerNone(it0, f.read_end, TRUE)
    ELSE IF f.found = 0 THEN LayerNone(it0, f.read_end, FALSE)
    ELSE IF f.record.num_layers = 0 THEN LayerNone(it0, f.read_end, FALSE)
    ELSE
    LET it1    == [it0 EXCEPT !.num_layers = f.record.num_layers]
        offset == LAYER_SIZE * f.record.first_layer_index
    IN
    IF offset + LAYER_SIZE * f.record.num_layers > cl[1].table_size
    THEN LayerNone(it1, f.read_end, FALSE)
    ELSE LayerRead(m, fc, [it1 EXCEPT !.p = cl[1].layers + offset],
                   f.read_end)

----------------------------------------------------------------------------
(* read_color_line, read_affine, read_paint                                *)

\* values of ftcolor.h: FT_PaintFormat and FT_PaintExtend
COLR_PAINTFORMAT_SOLID == 1
COLR_PAINTFORMAT_LINEAR_GRADIENT == 2
COLR_PAINTFORMAT_RADIAL_GRADIENT == 3
COLR_PAINT_FORMAT_MAX == 4
COLR_PAINT_EXTEND_REFLECT == 2

\* base + offset for an FT_ULong offset read from the table; an offset of
\* 2^30 or more leads to an address where nothing is mapped
PtrAdd(base, offset) ==
    IF offset[1] >= 16384 THEN base + 16384 * 65536
    ELSE base + ULongToInt(offset)

\* ok = 0 leaves the caller's colorline as it was
read_color_line(m, paint_base, colorline_offset) ==
    LET p == PtrAdd(paint_base, colorline_offset) IN
    IF ~Mapped(m, p, 2) THEN [ok |-> 0, fault |-> TRUE, read_end |-> p + 2]
    ELSE
    LET paint_extend == FT_PEEK_USHORT(m, p) IN
    IF paint_extend > COLR_PAINT_EXTEND_REFLECT
    THEN [ok |-> 0, fault |-> FALSE, read_end |-> p + 2]
    ELSE IF ~Mapped(m, p + 2, 2)
    THEN [ok |-> 0, fault |-> TRUE, read_end |-> p + 4]
    ELSE [ok       |-> 1,
          fault    |-> FALSE,
          extend   |-> paint_extend,
          color_stop_iterator |->
              [num_color_stops    |-> FT_PEEK_USHORT(m, p + 2),
               p                  |-> p + 4,
               current_color_stop |-> 0],
          read_end |-> p + 4]

\* four FT_Long components, each followed by a dropped 32-bit varIdx
read_affine(m, paint_base, affine_offset) ==
    LET p == PtrAdd(paint_base, affine_offset) IN
    IF ~Mapped(m, p, 32) THEN [ok |-> 0, fault |-> TRUE, read_end |-> p + 32]
    ELSE [ok       |-> 1,
          fault    |-> FALSE,
          affine   |-> [xx |-> FT_PEEK_LONG(m, p),
                        xy |-> FT_PEEK_LONG(m, p + 8),
                        yx |-> FT_PEEK_LONG(m, p + 16),
                        yy |-> FT_PEEK_LONG(m, p + 24)],
          read_end |-> p + 32]

PaintResult(ret, fault, apaint, paint_base, rd) ==
    [ret |-> ret, fault |-> fault, paint |-> apaint,
     paint_base |-> paint_base, read_end |-> rd]

\* lines 358-364
ReadSolid(m, paint_base, ap) ==
    IF ~Mapped(m, paint_base + 2, 8)
    THEN PaintResult(0, TRUE, ap, paint_base, paint_base + 10)
    ELSE PaintResult(1, FALSE,
                     [ap EXCEPT
                        !.palette_index = FT_PEEK_USHORT(m, paint_base + 2),
                        !.alpha         = FT_PEEK_USHORT(m, paint_base + 4)],
                     paint_base, paint_base + 10)

\* the colorline step shared by the two gradients: lines 367-373, 389-397
\* (both store through apaint->u.linear_gradient.colorline)
ReadColorLineOf(m, paint_base, ap) ==
    IF ~Mapped(m, paint_base + 2, 4)
    THEN [ok |-> 0, fault |-> TRUE, paint |-> ap, read_end |-> paint_base + 6]
    ELSE
    LET cl == read_color_line(m, paint_base, FT_PEEK_ULONG(m, paint_base + 2))
    IN  [ok       |-> cl.ok,
         fault    |-> cl.fault,
         paint    |-> IF cl.ok = 1
                      THEN [ap EXCEPT
                              !.extend = cl.extend,
                              !.color_stop_iterator = cl.color_stop_iterator]
                      ELSE ap,
         read_end |-> Max(paint_base + 6, cl.read_end)]

\* lines 374-386; c is the outcome of the colorline step
ReadLinearPoints(m, paint_base, c) ==
    IF c.ok = 0 THEN PaintResult(0, c.fault, c.paint, paint_base, c.read_end)
    ELSE IF ~Mapped(m, paint_base + 6, 36)
    THEN PaintResult(0, TRUE, c.paint, paint_base,
                     Max(c.read_end, paint_base + 42))
    ELSE PaintResult(1, FALSE,
                     [c.paint EXCEPT
                        !.p0 = <<FT_PEEK_SHORT(m, paint_base + 6),
                                 FT_PEEK_SHORT(m, paint_base + 12)>>,
                        !.p1 = <<FT_PEEK_SHORT(m, paint_base + 18),
                                 FT_PEEK_SHORT(m, paint_base + 24)>>,
                        !.p2 = <<FT_PEEK_SHORT(m, paint_base + 30),
                                 FT_PEEK_SHORT(m, paint_base + 36)>>],
                     paint_base, Max(c.read_end, paint_base + 42))

\* lines 365-386
ReadLinear(m, paint_base, ap) ==
    ReadLinearPoints(m, paint_base, ReadColorLineOf(m, paint_base, ap))

\* lines 399-435; c is the outcome of the colorline step
ReadRadialFields(m, paint_base, c) ==
    IF c.ok = 0 THEN PaintResult(0, c.fault, c.paint, paint_base, c.read_end)
    ELSE IF ~Mapped(m, paint_base + 6, 40)
    THEN PaintResult(0, TRUE, c.paint, paint_base,
                     Max(c.read_end, paint_base + 46))
    ELSE
    LET ap1 == [c.paint EXCEPT
                  !.c0 = <<FT_PEEK_SHORT(m, paint_base + 6),
                           FT_PEEK_SHORT(m, paint_base + 12)>>,
                  !.r0 = FT_PEEK_USHORT(m, paint_base + 18),
                  !.c1 = <<FT_PEEK_SHORT(m, paint_base + 24),
                           FT_PEEK_SHORT(m, paint_base + 30)>>,
                  !.r1 = FT_PEEK_USHORT(m, paint_base + 36)]
        affine_offset == FT_PEEK_ULONG(m, paint_base + 42)
        rd  == Max(c.read_end, paint_base + 46)
    IN
    IF ULongIsZero(affine_offset)
    THEN PaintResult(1, FALSE, ap1, paint_base, rd)
    ELSE
    LET ap2 == [ap1 EXCEPT !.affine = [xx |-> 1, xy |-> 0, yx |-> 1, yy |-> 0]]
        a   == read_affine(m, paint_base, affine_offset)
    IN  IF a.ok = 0
        THEN PaintResult(0, a.fault, ap2, paint_base, Max(rd, a.read_end))
        ELSE PaintResult(1, FALSE, [ap2 EXCEPT !.affine = a.affine],
                         paint_base, Max(rd, a.read_end))

\* lines 387-435
ReadRadial(m, paint_base, ap) ==
    ReadRadialFields(m, paint_base, ReadColorLineOf(m, paint_base, ap))

\* paint_offset is the FT_ULong of the LayerV1Record, ap the caller's paint
read_paint(m, layer_v1_array, paint_offset, ap) ==
    LET paint_base == PtrAdd(layer_v1_array, paint_offset) IN
    IF ~Mapped(m, paint_base, 2)
    THEN PaintResult(0, TRUE, ap, paint_base, paint_base + 2)
    ELSE
    LET ap0 == [ap EXCEPT !.format = FT_PEEK_USHORT(m, paint_base)] IN
    IF ap0.format >= COLR_PAINT_FORMAT_MAX
    THEN PaintResult(0, FALSE, ap0, paint_base, paint_base + 2)
    ELSE IF ap0.format = COLR_PAINTFORMAT_SOLID
    THEN ReadSolid(m, paint_base, ap0)
    ELSE IF ap0.format = COLR_PAINTFORMAT_LINEAR_GRADIENT
    THEN ReadLinear(m, paint_base, ap0)
    ELSE IF ap0.format = COLR_PAINTFORMAT_RADIAL_GRADIENT
    THEN ReadRadial(m, paint_base, ap0)
    ELSE PaintResult(1, FALSE, ap0, paint_base, paint_base + 2)

----------------------------------------------------------------------------
(* tt_face_get_colr_layer_gradients                                        *)

GradNone(it, ap, rd, fault) ==
    [ret |-> 0, iterator |-> it, paint |-> ap, wrote |-> FALSE,
     fault |-> fault, paint_base |-> NULL, read_end |-> rd]

\* lines 530-538; r is the outcome of read_paint, rd1 the reads before it
GradYield(it, gid, rd1, r) ==
    IF r.ret = 0
    THEN [GradNone(it, r.paint, Max(rd1, r.read_end), r.fault)
            EXCEPT !.paint_base = r.paint_base]
    ELSE [ret          |-> 1,
          iterator     |-> [it EXCEPT !.p = it.p + LAYER_V1_RECORD_SIZE,
                                      !.layer = it.layer + 1],
          paint        |-> r.paint,
          wrote        |-> TRUE,
          aglyph_index |-> gid,
          fault        |-> FALSE,
          paint_base   |-> r.paint_base,
          read_end     |-> Max(rd1, r.read_end)]

\* lines 514-538; iterator->num_layers holds the limb pair of an FT_ULong
GradRead(m, fc, it, ap, rd) ==
    IF ULongLess(it.num_layers, it.layer + 1) THEN GradNone(it, ap, rd, FALSE)
    ELSE
    LET p              == it.p
        layer_v1_array == p - it.layer * LAYER_V1_RECORD_SIZE - 4
        rd1            == Max(rd, p + LAYER_V1_RECORD_SIZE)
    IN
    IF ~Mapped(m, p, 2) THEN GradNone(it, ap, Max(rd, p + 2), TRUE)
    ELSE
    LET gid == FT_PEEK_USHORT(m, p) IN
    IF gid > fc.num_glyphs THEN GradNone(it, ap, Max(rd, p + 2), FALSE)
    ELSE IF ~Mapped(m, p + 2, 4) THEN GradNone(it, ap, rd1, TRUE)
    ELSE
    GradYield(it, gid, rd1,
              read_paint(m, layer_v1_array, FT_PEEK_ULONG(m, p + 2), ap))

\* lines 497-512, then 514-538; f is the outcome of the search, it0 the
\* iterator with its layer reset
GradFirst(m, cl, fc, it0, ap, f) ==
    IF f.fault THEN GradNone(it0, ap, f.read_end, TRUE)
    ELSE IF f.found = 0 THEN GradNone(it0, ap, f.read_end, FALSE)
    ELSE IF \/ ULongIsZero(f.record.layer_array_offset)
            \/ ~ULongLess(f.record.layer_array_offset, cl[1].table_size + 1)
    THEN GradNone(it0, ap, f.read_end, FALSE)
    ELSE
    LET q   == cl[1].base_glyphs_v1 + ULongToInt(f.record.layer_array_offset)
        rd  == Max(f.read_end, q + 4)
    IN
    IF ~Mapped(m, q, 4) THEN GradNone(it0, ap, rd, TRUE)
    ELSE
    LET it1 == [it0 EXCEPT !.num_layers = FT_PEEK_ULONG(m, q)] IN
    IF q + 4 > cl[1].table_size THEN GradNone(it1, ap, rd, FALSE)
    ELSE GradRead(m, fc, [it1 EXCEPT !.p = q + 4], ap, rd)

tt_face_get_colr_layer_gradients(m, cl, fc, base_glyph, it, ap) ==
    \* colr is dereferenced without a test against NULL
    IF cl = <<>> THEN GradNone(it, ap, 0, TRUE)
    ELSE IF \/ cl[1].version < 1
            \/ cl[1].num_base_glyphs_v1 = 0
            \/ cl[1].base_glyphs_v1 = NULL
    THEN GradNone(it, ap, 0, FALSE)
    ELSE IF it.p # NULL THEN GradRead(m, fc, it, ap, 0)
    ELSE GradFirst(m, cl, fc, [it EXCEPT !.layer = 0], ap,
                   find_base_glyph_v1_record(m, cl[1].base_glyphs_v1,
                                             cl[1].num_base_glyphs_v1,
                                             base_glyph))

----------------------------------------------------------------------------
(* tt_face_get_colorline_stops                                             *)

\* it is the FT_ColorStopIterator; a stop record is read as 14 bytes:
\* stop offset, varIdx, palette index, alpha, varIdx
tt_face_get_colorline_stops(m, cl, it) ==
    IF it.current_color_stop >= it.num_color_stops
    THEN [ret |-> 0, fault |-> FALSE, iterator |-> it, read_end |-> 0]
    ELSE IF it.p + (it.num_color_stops - it.current_color_stop)
                     * COLOR_STOP_SIZE
              > cl[1].table + cl[1].table_size
    THEN [ret |-> 0, fault |-> FALSE, iterator |-> it, read_end |-> 0]
    ELSE IF ~Mapped(m, it.p, 14)
    THEN [ret |-> 0, fault |-> TRUE, iterator |-> it, read_end |-> it.p + 14]
    ELSE [ret        |-> 1,
          fault      |-> FALSE,
          color_stop |-> [stop_offset   |-> FT_PEEK_USHORT(m, it.p),
                          palette_index |-> FT_PEEK_USHORT(m, it.p + 6),
                          alpha         |-> FT_PEEK_USHORT(m, it.p + 8)],
          iterator   |-> [it EXCEPT !.p = it.p + 14,
                                    !.current_color_stop = @ + 1],
          read_end   |-> it.p + 14]

----------------------------------------------------------------------------
(* Values of the variables an operation does not use.                      *)

NoCall == [name |-> "none", ret |-> 0]
NoIterator == [p |-> NULL, layer |-> 0, num_layers |-> 0]
NoHistory == [base_glyph |-> 0, calls |-> 0, yielded |-> <<>>, reads |-> 0,
              rejected |-> FALSE]
NoPaint ==
    [format |-> 0, palette_index |-> 0, alpha |-> 0, extend |-> 0,
     color_stop_iterator |->
         [num_color_stops |-> 0, p |-> NULL, current_color_stop |-> 0],
     p0 |-> <<0, 0>>, p1 |-> <<0, 0>>, p2 |-> <<0, 0>>,
     c0 |-> <<0, 0>>, r0 |-> 0, c1 |-> <<0, 0>>, r1 |-> 0,
     affine |-> [xx |-> 0, xy |-> 0, yx |-> 0, yy |-> 0]]
NoSlot == [buffer |-> <<>>]
NoFace == [cpal |-> TRUE]

----------------------------------------------------------------------------
(* The loader: tt_face_load_colr on a drawn table, then tt_face_free_colr. *)

\* A table image: the 14-byte header, the version 1 offset field, a 32-bit
\* word (the element count of a BaseGlyphV1Array placed at 18) and padding.
LoadImage(version, nbg, bgoff, loff, nl, v1off, cnt) ==
    U16(version) \o U16(nbg) \o U32(bgoff) \o U32(loff) \o U16(nl)
        \o U32(v1off) \o U32(cnt) \o Zeros(MaxTableSize - 22)

Versions == {0, 1, 2}
BaseGlyphOffsets == {0, 12, MaxTableSize}
LayerOffsets == {0, 20, MaxTableSize}
BaseGlyphV1Offsets == {14, 18, 20, 22, MaxTableSize}
\* 715827883 = 0x2AAAAAAB: times 6 it is 2^32 + 2
BaseGlyphV1Counts == {0, 1, 715827883}

InitLoad ==
    /\ \E version \in Versions, nbg \in 0..MaxCount, nl \in 0..MaxCount,
          bgoff \in BaseGlyphOffsets, loff \in LayerOffsets,
          v1off \in BaseGlyphV1Offsets, cnt \in BaseGlyphV1Counts,
          ts \in (COLR_HEADER_SIZE - 1)..MaxTableSize :
          \E mapped \in {ts, MaxTableSize} :
             /\ table_size = ts
             /\ mem = Prefix(LoadImage(version, nbg, bgoff, loff, nl,
                                       v1off, cnt), mapped)
    /\ ulong_bits \in {32, 64}
    /\ face = NoFace
    /\ colr = <<>>
    /\ call = NoCall
    /\ read_end = 0
    /\ iterator = NoIterator
    /\ history = NoHistory
    /\ paint = NoPaint
    /\ dstSlot = NoSlot

\* the collaborators of the loader: all succeed, or exactly one fails
LoadEnvs ==
    LET ok == [cpal |-> TRUE, goto_table |-> TRUE, frame |-> TRUE, new |-> TRUE]
    IN  {ok, [ok EXCEPT !.cpal = FALSE], [ok EXCEPT !.goto_table = FALSE],
         [ok EXCEPT !.frame = FALSE], [ok EXCEPT !.new = FALSE]}

LoadColr ==
    /\ call.name = "none"
    /\ \E env \in LoadEnvs :
          LET r == tt_face_load_colr(mem, table_size, ulong_bits, env) IN
          /\ face' = [face EXCEPT !.cpal = env.cpal]
          /\ colr' = r.colr
          /\ read_end' = r.read_end
          /\ call' = [name |-> "tt_face_load_colr", ret |-> r.error,
                      decoded |-> env.cpal /\ env.goto_table /\ env.frame
                                    /\ env.new]
    /\ UNCHANGED <<mem, table_size, ulong_bits, iterator, history,
                   paint, dstSlot>>

\* tt_face_free_colr: releases the frame and the structure
FreeColr ==
    /\ call.name = "tt_face_load_colr"
    /\ call.ret # "Fault"
    /\ colr' = <<>>
    /\ call' = [name |-> "tt_face_free_colr", ret |-> 0]
    /\ UNCHANGED <<mem, table_size, ulong_bits, face, read_end, iterator,
                   history, paint, dstSlot>>

NextLoad == LoadColr \/ FreeColr

SpecLoad == InitLoad /\ [][NextLoad]_vars

\* The header fields of a table frame, read where they lie inside it.
HeaderOf(m) ==
    [version           |-> FT_PEEK_USHORT(m, 0),
     num_base_glyphs   |-> FT_PEEK_USHORT(m, 2),
     base_glyph_offset |-> FT_PEEK_ULONG(m, 4),
     layer_offset      |-> FT_PEEK_ULONG(m, 8),
     num_layers        |-> FT_PEEK_USHORT(m, 12)]

\* an array of `count' records of `size' bytes at `offset' does not fit in a
\* table of ts bytes (offset and count are limb pairs, the sum is exact)
ArrayOutside(offset, count, size, ts) ==
    \/ ~ULongLess(offset, ts)
    \/ ~ULongLess(count, (ts - ULongToInt(offset)) \div size + 1)

\* some offset/count combination that the frame holds is violated
CombinationViolated ==
    /\ table_size >= COLR_HEADER_SIZE
    /\ LET h == HeaderOf(mem) IN
       \/ ArrayOutside(h.base_glyph_offset, <<0, h.num_base_glyphs>>,
                       BASE_GLYPH_SIZE, table_size)
       \/ ArrayOutside(h.layer_offset, <<0, h.num_layers>>,
                       LAYER_SIZE, table_size)
       \/ /\ h.version = 1
          /\ table_size >= COLR_HEADER_SIZE + 4
          /\ LET v1 == FT_PEEK_ULONG(mem, 14) IN
             \/ ~ULongLess(v1, table_size)
             \/ /\ ULongToInt(v1) + 4 <= table_size
                /\ ArrayOutside(v1, FT_PEEK_ULONG(mem, ULongToInt(v1)),
                                BASE_GLYPH_V1_SIZE, table_size)

\* the arrays of an accepted table fit in it
ColrFits(c) ==
    /\ c.base_glyphs < c.table_size
    /\ c.base_glyphs + c.num_base_glyphs * BASE_GLYPH_SIZE <= c.table_size
    /\ c.layers < c.table_size
    /\ c.layers + c.num_layers * LAYER_SIZE <= c.table_size
    /\ c.version = 1 =>
          /\ c.base_glyphs_v1 >= 0
          /\ c.base_glyphs_v1 < c.table_size
          /\ c.base_glyphs_v1 + c.num_base_glyphs_v1 * BASE_GLYPH_V1_SIZE
                <= c.table_size

\* C1: if tt_face_load_colr succeeds, the base glyph array, the layer array
\* and (version 1) the BaseGlyphV1Array fit in the table, each offset below
\* table_size; and a table in which one of these offset/count combinations
\* is violated is answered by Invalid_Table with face->colr not set.
C1_AcceptedArraysFit ==
    call.name = "tt_face_load_colr" =>
        /\ call.ret = "Ok" => colr # <<>> /\ ColrFits(colr[1])
        /\ call.decoded /\ CombinationViolated =>
              call.ret = "Invalid_Table" /\ colr = <<>>

\* C2: tt_face_load_colr reads no byte at an index >= table_size, whatever
\* the length and the content of the table.
C2_LoadReadsInsideTable ==
    call.name = "tt_face_load_colr" => read_end <= table_size

----------------------------------------------------------------------------
(* Well-formed table images, laid out as the format prescribes.            *)

RECURSIVE Flatten(_)
Flatten(ss) == IF ss = <<>> THEN <<>> ELSE Head(ss) \o Flatten(Tail(ss))

EncBaseGlyph(r) == U16(r.gid) \o U16(r.first_layer_index) \o U16(r.num_layers)
EncLayer(l) == U16(l.gid) \o U16(l.color_index)
EncBaseGlyphV1(r) == U16(r.gid) \o U32(r.layer_array_offset)

\* header, base glyph records, layer records, then (version 1) the
\* BaseGlyphV1Array with its element count, then `tail'
TableImage(version, bg, ly, v1, tail) ==
    LET hdr   == IF version = 1 THEN COLR_HEADER_SIZE + 4 ELSE COLR_HEADER_SIZE
        loff  == hdr + BASE_GLYPH_SIZE * Len(bg)
        v1off == loff + LAYER_SIZE * Len(ly)
    IN  U16(version) \o U16(Len(bg)) \o U32(hdr) \o U32(loff) \o U16(Len(ly))
          \o (IF version = 1 THEN U32(v1off) ELSE <<>>)
          \o Flatten([i \in 1..Len(bg) |-> EncBaseGlyph(bg[i])])
          \o Flatten([i \in 1..Len(ly) |-> EncLayer(ly[i])])
          \o (IF version = 1
              THEN U32(Len(v1))
                     \o Flatten([i \in 1..Len(v1) |-> EncBaseGlyphV1(v1[i])])
              ELSE <<>>)
          \o tail

AllOk == [cpal |-> TRUE, goto_table |-> TRUE, frame |-> TRUE, new |-> TRUE]

----------------------------------------------------------------------------
(* The glyph index: the two binary searches on the arrays of a loaded      *)
(* table, for glyph ids present and absent.                                *)

GlyphIds == 0..MaxGlyphId
\* 65536 is an FT_UInt that no 16-bit glyph id equals
GlyphQueries == 0..(MaxGlyphId + 1) \cup {65536}

FindImage(version, gids, seed) ==
    IF version = 0
    THEN TableImage(0, [i \in 1..Len(gids) |->
                          [gid               |-> gids[i],
                           first_layer_index |-> seed + 2 * i,
                           num_layers        |-> gids[i] % 3]],
                    <<>>, <<>>, Zeros(1))
    ELSE TableImage(1, <<>>, <<>>,
                    [i \in 1..Len(gids) |->
                       [gid                |-> gids[i],
                        layer_array_offset |-> 65536 * seed + 10 * i]],
                    Zeros(1))

InitFind ==
    /\ \E version \in {0, 1}, n \in 0..MaxRecords, seed \in {0, 1} :
          \E gids \in [1..n -> GlyphIds] :
             /\ mem = FindImage(version, gids, seed)
             /\ table_size = Len(mem)
    /\ ulong_bits \in {32, 64}
    /\ LET r == tt_face_load_colr(mem, table_size, ulong_bits, AllOk) IN
       /\ r.error = "Ok"
       /\ colr = r.colr
    /\ face = NoFace
    /\ call = NoCall
    /\ read_end = 0
    /\ iterator = NoIterator
    /\ history = NoHistory
    /\ paint = NoPaint
    /\ dstSlot = NoSlot

\* the call's record argument is written only when the glyph id is found
FindOutcome(name, glyph_id, r) ==
    [name |-> name, glyph_id |-> glyph_id, ret |-> r.found,
     fault |-> r.fault, probes |-> r.probes,
     record |-> IF r.found = 1 THEN <<r.record>> ELSE <<>>]

FindBaseGlyph ==
    /\ colr # <<>>
    /\ \E glyph_id \in GlyphQueries :
          LET r == find_base_glyph_record(mem, colr[1].base_glyphs,
                                          colr[1].num_base_glyphs, glyph_id)
          IN  /\ call' = FindOutcome("find_base_glyph_record", glyph_id, r)
              /\ read_end' = r.read_end
    /\ UNCHANGED <<mem, table_size, ulong_bits, face, colr, iterator,
                   history, paint, dstSlot>>

FindBaseGlyphV1 ==
    /\ colr # <<>>
    /\ colr[1].base_glyphs_v1 # NULL
    /\ \E glyph_id \in GlyphQueries :
          LET r == find_base_glyph_v1_record(mem, colr[1].base_glyphs_v1,
                                             colr[1].num_base_glyphs_v1,
                                             glyph_id)
          IN  /\ call' = FindOutcome("find_base_glyph_v1_record", glyph_id, r)
              /\ read_end' = r.read_end
    /\ UNCHANGED <<mem, table_size, ulong_bits, face, colr, iterator,
                   history, paint, dstSlot>>

NextFind == FindBaseGlyph \/ FindBaseGlyphV1

SpecFind == InitFind /\ [][NextFind]_vars

\* the i-th record (0-based) of the array the last search ran on, and the
\* number of records of that array
SearchedV1 == call.name = "find_base_glyph_v1_record"
SearchedCount ==
    IF SearchedV1 THEN colr[1].num_base_glyphs_v1 ELSE colr[1].num_base_glyphs
SearchedRecord(i) ==
    IF SearchedV1
    THEN LET p == colr[1].base_glyphs_v1 + 4 + BASE_GLYPH_V1_SIZE * i IN
         [gid                |-> FT_PEEK_USHORT(mem, p),
          layer_array_offset |-> FT_PEEK_ULONG(mem, p + 2)]
    ELSE LET p == colr[1].base_glyphs + BASE_GLYPH_SIZE * i IN
         [gid               |-> FT_PEEK_USHORT(mem, p),
          first_layer_index |-> FT_PEEK_USHORT(mem, p + 2),
          num_layers        |-> FT_PEEK_USHORT(mem, p + 4)]
SearchedAscending ==
    \A i \in 0..(SearchedCount - 2) :
        SearchedRecord(i).gid < SearchedRecord(i + 1).gid
SearchedMatches ==
    {i \in 0..(SearchedCount - 1) : SearchedRecord(i).gid = call.glyph_id}

\* C3: on an array of 0, 1 or N records with strictly ascending glyph ids,
\* both searches return the record of a glyph id that is present with
\* exactly its fields, return not-found for an absent glyph id, and end
\* after at most one probe per record.
C3_SearchFindsExactly ==
    (call.name \in {"find_base_glyph_record", "find_base_glyph_v1_record"}
       /\ SearchedAscending) =>
        /\ ~call.fault
        /\ call.probes <= SearchedCount
        /\ \A i \in SearchedMatches :
              call.ret = 1 /\ call.record = <<SearchedRecord(i)>>
        /\ SearchedMatches = {} => call.ret = 0 /\ call.record = <<>>

\* a present glyph id was found at the last place of a full array, by the
\* version 1 search
C3_Witness ==
    /\ call.name = "find_base_glyph_v1_record"
    /\ SearchedCount = MaxRecords
    /\ SearchedAscending
    /\ call.ret = 1
    /\ (MaxRecords - 1) \in SearchedMatches

----------------------------------------------------------------------------
(* The layer iterator: repeated calls of tt_face_get_colr_layer with one   *)
(* iterator on one base glyph of a loaded table.                           *)

\* The layer record drawn for place i (1-based) of the layer array: a valid
\* one that tells its place, one with the foreground color, one whose glyph
\* id is the glyph count, one whose color index is the palette entry count.
LayerKinds == {"ok", "foreground", "bad_gid", "bad_color"}
DrawnLayer(kind, i) ==
    [gid         |-> IF kind = "bad_gid" THEN NumGlyphs
                     ELSE (i - 1) % NumGlyphs,
     color_index |-> IF kind = "foreground" THEN 65535
                     ELSE IF kind = "bad_color" THEN NumPaletteEntries
                     ELSE (i - 1) % NumPaletteEntries]

\* base glyph 1 with the drawn range, optionally followed by base glyph 3
LayerImage(kinds, first, num, second) ==
    TableImage(0,
               <<[gid |-> 1, first_layer_index |-> first, num_layers |-> num]>>
                 \o (IF second
                     THEN <<[gid |-> 3, first_layer_index |-> 0,
                             num_layers |-> 1]>>
                     ELSE <<>>),
               [i \in 1..Len(kinds) |-> DrawnLayer(kinds[i], i)],
               <<>>, <<>>)

\* what may be mapped behind the table frame
Behind == {<<>>, <<0, 1, 0, 0, 0, 9, 0, 9>>}

InitLayer ==
    /\ \E n \in 0..MaxLayers, first \in 0..MaxLayers, num \in 0..MaxLayers,
          second \in BOOLEAN, behind \in Behind :
          \E kinds \in [1..n -> LayerKinds] :
             LET image == LayerImage(kinds, first, num, second) IN
             /\ mem = image \o behind
             /\ table_size = Len(image)
    /\ ulong_bits \in {32, 64}
    /\ colr = tt_face_load_colr(mem, table_size, ulong_bits, AllOk).colr
    /\ face = [cpal |-> TRUE, num_glyphs |-> NumGlyphs,
               num_palette_entries |-> NumPaletteEntries]
    /\ \E base_glyph \in {1, 2} :
          history = [NoHistory EXCEPT !.base_glyph = base_glyph]
    /\ call = [name |-> "none", ret |-> 0, fault |-> FALSE,
               aglyph_index |-> 0, acolor_index |-> 0]
    /\ read_end = 0
    /\ iterator = NoIterator
    /\ paint = NoPaint
    /\ dstSlot = NoSlot

GetColrLayer ==
    /\ ~call.fault
    /\ history.calls < MaxCalls
    /\ LET r == tt_face_get_colr_layer(mem, colr, face, history.base_glyph,
                                       iterator)
       IN  /\ iterator' = r.iterator
           /\ read_end' = r.read_end
           /\ call' = [name  |-> "tt_face_get_colr_layer",
                       ret   |-> r.ret,
                       fault |-> r.fault,
                       aglyph_index |-> IF r.wrote THEN r.aglyph_index
                                        ELSE call.aglyph_index,
                       acolor_index |-> IF r.wrote THEN r.acolor_index
                                        ELSE call.acolor_index]
           /\ history' =
                [history EXCEPT
                   !.calls    = @ + 1,
                   !.yielded  = IF r.ret = 1
                                THEN Append(@, <<r.aglyph_index,
                                                 r.acolor_index>>)
                                ELSE @,
                   !.reads    = IF r.wrote THEN @ + 1 ELSE @,
                   !.rejected = @ \/ r.rejected]
    /\ UNCHANGED <<mem, table_size, ulong_bits, face, colr, paint,
                   dstSlot>>

NextLayer == GetColrLayer

SpecLayer == InitLayer /\ [][NextLayer]_vars

\* the base glyph records of the loaded table that carry the iterated glyph
BaseGlyphAt(i) ==
    LET p == colr[1].base_glyphs + BASE_GLYPH_SIZE * i IN
    [gid               |-> FT_PEEK_USHORT(mem, p),
     first_layer_index |-> FT_PEEK_USHORT(mem, p + 2),
     num_layers        |-> FT_PEEK_USHORT(mem, p + 4)]
IteratedRecords ==
    {BaseGlyphAt(i) : i \in {j \in 0..(colr[1].num_base_glyphs - 1) :
                               BaseGlyphAt(j).gid = history.base_glyph}}

\* the layer record at place j (0-based) of the layer array
LayerInside(j) == colr[1].layers + LAYER_SIZE * (j + 1) <= table_size
LayerAt(j) ==
    LET p == colr[1].layers + LAYER_SIZE * j IN
    <<FT_PEEK_USHORT(mem, p), FT_PEEK_USHORT(mem, p + 2)>>
LayerValid(j) ==
    /\ LayerAt(j)[1] < face.num_glyphs
    /\ LayerAt(j)[2] = 65535 \/ LayerAt(j)[2] < face.num_palette_entries

\* every layer of the record lies inside the table and is valid
RangeValid(rec) ==
    \A j \in rec.first_layer_index
               ..(rec.first_layer_index + rec.num_layers - 1) :
        LayerInside(j) /\ LayerValid(j)

\* C4: for a base glyph whose record declares k layers, all valid and
\* inside the table, the first k calls with a zero-initialised iterator
\* return 1 and yield the k (glyph id, color index) pairs in table order
\* from first_layer_index, and every later call returns 0 and yields none.
C4_YieldsExactlyTheLayers ==
    (call.name = "tt_face_get_colr_layer" /\ colr # <<>>) =>
        \A rec \in IteratedRecords :
            RangeValid(rec) =>
               /\ ~call.fault
               /\ call.ret = (IF history.calls <= rec.num_layers THEN 1 ELSE 0)
               /\ history.yielded =
                    [c \in 1..Min(history.calls, rec.num_layers) |->
                       LayerAt(rec.first_layer_index + c - 1)]

\* two calls beyond the last of at least two valid layers have been made
C4_Witness ==
    /\ call.name = "tt_face_get_colr_layer"
    /\ colr # <<>>
    /\ \E rec \in IteratedRecords :
          /\ rec.num_layers >= 2
          /\ rec.first_layer_index >= 1
          /\ RangeValid(rec)
          /\ history.calls = rec.num_layers + 2
          /\ Len(history.yielded) = rec.num_layers
          /\ call.ret = 0

\* C10: once a call has rejected a layer record (glyph id >= glyph count,
\* or color index neither 0xFFFF nor < palette entry count), every later
\* call with the iterator returns 0; no more layer records are read than
\* the base glyph has layers, and the cursor stays within its layer range.
C10_RejectionHalts ==
    (call.name = "tt_face_get_colr_layer" /\ colr # <<>>) =>
        /\ history.rejected => call.ret = 0
        /\ \A rec \in IteratedRecords :
              /\ history.reads <= rec.num_layers
              /\ iterator.p # NULL =>
                    iterator.p <= colr[1].layers
                                    + LAYER_SIZE * (rec.first_layer_index
                                                      + rec.num_layers)

\* the layer range of the record ends inside the table
RangeInside(rec) ==
    colr[1].layers + LAYER_SIZE * (rec.first_layer_index + rec.num_layers)
        <= table_size

\* C11: in a loaded table, whatever its layer array offset and the
\* first_layer_index and layer count of the base glyph record, the first
\* call accepts the layer range only if all its records lie inside the
\* table: every layer record the iterator reads lies at byte indices below
\* table_size, and a range reaching past the table end yields no layer.
C11_LayerRangeInsideTable ==
    (call.name = "tt_face_get_colr_layer" /\ colr # <<>>) =>
        /\ ~call.fault
        /\ read_end <= table_size
        /\ \A rec \in IteratedRecords :
              ~RangeInside(rec) => call.ret = 0 /\ history.yielded = <<>>

----------------------------------------------------------------------------
(* The paint reader: tt_face_get_colr_layer_gradients on the layers of one *)
(* base glyph of a version 1 table, and tt_face_get_colorline_stops on the *)
(* color line of the gradient it returned.                                 *)

VarIdx == <<0, 0, 0, 9>>
Var16(v) == U16(v) \o VarIdx
Var32(v) == U32(v) \o VarIdx

\* the stop records of a color line: 14 bytes each
EncStops(n) ==
    Flatten([i \in 1..n |-> Var16(100 * i) \o U16(i % NumPaletteEntries)
                              \o U16(255 - i) \o VarIdx])
EncColorLine(extend, declared, present) ==
    U16(extend) \o U16(declared) \o EncStops(present)

\* the affine of the drawn radial gradients
DrawnAffine == [xx |-> 65536, xy |-> 0 - 3, yx |-> 5, yy |-> 0 - 65536]
EncAffine(a) == Var32(a.xx) \o Var32(a.xy) \o Var32(a.yx) \o Var32(a.yy)

\* A paint with what its offsets point to behind it.  The color line comes
\* last, so that the stops of the last paint end the image.
PaintKinds == {"solid", "linear", "radial", "radial_affine", "bad_format"}
EncPaint(kind, extend, declared, present) ==
    IF kind = "solid" THEN U16(1) \o U16(1) \o U16(200) \o VarIdx
    ELSE IF kind = "bad_format" THEN U16(COLR_PAINT_FORMAT_MAX)
    ELSE IF kind = "linear"
    THEN U16(2) \o U32(42) \o Var16(1) \o Var16(2) \o Var16(3)
           \o Var16(65535) \o Var16(5) \o Var16(6)
           \o EncColorLine(extend, declared, present)
    ELSE IF kind = "radial"
    THEN U16(3) \o U32(46) \o Var16(1) \o Var16(2) \o Var16(3)
           \o Var16(65535) \o Var16(5) \o Var16(6) \o U32(0)
           \o EncColorLine(extend, declared, present)
    ELSE U16(3) \o U32(78) \o Var16(1) \o Var16(2) \o Var16(3)
           \o Var16(65535) \o Var16(5) \o Var16(6) \o U32(46)
           \o EncAffine(DrawnAffine)
           \o EncColorLine(extend, declared, present)

\* the glyph id drawn for a LayerV1Record: valid, the glyph count, above it
LayerGids == {1, NumGlyphs, NumGlyphs + 1}

\* total length of the first k byte sequences of ss
RECURSIVE LenOfFirst(_, _)
LenOfFirst(ss, k) == IF k = 0 THEN 0 ELSE LenOfFirst(ss, k - 1) + Len(ss[k])

\* Version 1 table: header, BaseGlyphV1Array with base glyph 1, its
\* LayerV1Array, the paints.  layers is a sequence of <<glyph id, kind>>;
\* the paint offset of a LayerV1Record counts from the LayerV1Array.
PaintImage(layers, extend, declared, present) ==
    LET n      == Len(layers)
        blocks == [i \in 1..n |->
                     EncPaint(layers[i][2], extend, declared, present)]
    IN  TableImage(1, <<>>, <<>>, <<[gid |-> 1, layer_array_offset |-> 10]>>,
                   U32(n)
                     \o Flatten([i \in 1..n |->
                                   U16(layers[i][1])
                                     \o U32(4 + LAYER_V1_RECORD_SIZE * n
                                              + LenOfFirst(blocks, i - 1))])
                     \o Flatten(blocks))

\* the caller's paint before the first call: zeroed, or left over
StalePaint ==
    [NoPaint EXCEPT !.format = 3,
                    !.affine = [xx |-> 7, xy |-> 8, yx |-> 9, yy |-> 10]]

InitPaint ==
    /\ \E n \in 0..MaxPaintLayers, extend \in {0, 2, 3},
          declared \in 0..MaxStops, cut \in {0, 8, 14} :
          \E layers \in [1..n -> LayerGids \X PaintKinds] :
             LET image == PaintImage(layers, extend, declared, declared) IN
             /\ mem = image
             /\ table_size = Len(image) - cut
    /\ ulong_bits = 64
    /\ colr = tt_face_load_colr(mem, table_size, ulong_bits, AllOk).colr
    /\ colr # <<>>
    /\ face = [cpal |-> TRUE, num_glyphs |-> NumGlyphs,
               num_palette_entries |-> NumPaletteEntries]
    /\ \E base_glyph \in {1, 2} :
          history = [base_glyph |-> base_glyph, calls |-> 0, yielded |-> <<>>,
                     stop_calls |-> 0, stops_yielded |-> 0]
    /\ call = [name |-> "none", ret |-> 0, fault |-> FALSE,
               aglyph_index |-> 0, paint_base |-> NULL]
    /\ read_end = 0
    /\ iterator = [p |-> NULL, layer |-> 0, num_layers |-> <<0, 0>>]
    /\ paint \in {NoPaint, StalePaint}
    /\ dstSlot = NoSlot

\* the caller's variables after a call that ended as r
GradientsReturn(r) ==
    /\ iterator' = r.iterator
    /\ paint' = r.paint
    /\ read_end' = r.read_end
    /\ call' = [name  |-> "tt_face_get_colr_layer_gradients",
                ret   |-> r.ret,
                fault |-> r.fault,
                aglyph_index |-> IF r.wrote THEN r.aglyph_index
                                 ELSE call.aglyph_index,
                paint_base   |-> r.paint_base]
    /\ history' =
         [history EXCEPT
            !.calls   = @ + 1,
            !.yielded = IF r.ret = 1 THEN Append(@, r.aglyph_index) ELSE @,
            !.stop_calls = 0,
            !.stops_yielded = 0]

GetColrLayerGradients ==
    /\ ~call.fault
    /\ history.calls < MaxCalls
    /\ GradientsReturn(tt_face_get_colr_layer_gradients(
                           mem, colr, face, history.base_glyph, iterator,
                           paint))
    /\ UNCHANGED <<mem, table_size, ulong_bits, face, colr, dstSlot>>

\* the caller walks the color line of the gradient it was given
GetColorlineStops ==
    /\ ~call.fault
    /\ \/ call.name = "tt_face_get_colr_layer_gradients" /\ call.ret = 1
       \/ call.name = "tt_face_get_colorline_stops"
    /\ paint.format \in {COLR_PAINTFORMAT_LINEAR_GRADIENT,
                         COLR_PAINTFORMAT_RADIAL_GRADIENT}
    /\ history.stop_calls < MaxStops + 2
    /\ LET r == tt_face_get_colorline_stops(mem, colr,
                                            paint.color_stop_iterator)
       IN  /\ paint' = [paint EXCEPT !.color_stop_iterator = r.iterator]
           /\ read_end' = r.read_end
           /\ call' = [call EXCEPT
                         !.name  = "tt_face_get_colorline_stops",
                         !.ret   = r.ret,
                         !.fault = r.fault]
           /\ history' = [history EXCEPT
                            !.stop_calls = @ + 1,
                            !.stops_yielded = @ + r.ret]
    /\ UNCHANGED <<mem, table_size, ulong_bits, face, colr, iterator,
                   dstSlot>>

NextPaint == GetColrLayerGradients \/ GetColorlineStops

SpecPaint == InitPaint /\ [][NextPaint]_vars

\* C5: tt_face_get_colorline_stops returns 1 only when the whole stop
\* record it reads (stop offset, varIdx, palette index, alpha, varIdx) lies
\* inside the table; a call that would read past the table end, or after
\* all declared stops were yielded, returns 0 and reads nothing.
C5_StopReadsInsideTable ==
    call.name = "tt_face_get_colorline_stops" =>
        /\ call.ret = 1 => read_end <= table_size
        /\ call.ret = 0 => read_end = 0
        /\ history.stops_yielded <= paint.color_stop_iterator.num_color_stops

IsIdentity(a) ==
    /\ a.xy = 0 /\ a.yx = 0 /\ a.xx = a.yy /\ a.xx \in {1, 65536}

\* C6: a RadialGradient decoded with success has the identity affine when
\* the affine offset of its record is 0, whatever the paint held before,
\* and the four components stored at paint_base + affine_offset otherwise.
C6_RadialAffine ==
    (/\ call.name = "tt_face_get_colr_layer_gradients"
     /\ call.ret = 1
     /\ paint.format = COLR_PAINTFORMAT_RADIAL_GRADIENT) =>
        LET affine_offset == FT_PEEK_ULONG(mem, call.paint_base + 42)
            q == call.paint_base + ULongToInt(affine_offset)
        IN  IF ULongIsZero(affine_offset)
            THEN IsIdentity(paint.affine)
            ELSE paint.affine = [xx |-> FT_PEEK_LONG(mem, q),
                                 xy |-> FT_PEEK_LONG(mem, q + 8),
                                 yx |-> FT_PEEK_LONG(mem, q + 16),
                                 yy |-> FT_PEEK_LONG(mem, q + 24)]

\* C12: every glyph id that tt_face_get_colr_layer_gradients yields is a
\* glyph index of the font, below the glyph count; a LayerV1Record whose
\* glyph id is the glyph count or above makes the call return 0 and yields
\* no layer.
C12_YieldedGlyphInRange ==
    /\ \A i \in 1..Len(history.yielded) :
          history.yielded[i] < face.num_glyphs
    /\ (call.name = "tt_face_get_colr_layer_gradients" /\ call.ret = 1) =>
          call.aglyph_index < face.num_glyphs

----------------------------------------------------------------------------
(* The compositor: tt_face_colr_blend_layer.  A glyph slot is a record;    *)
(* its bitmap buffer is a byte sequence, <<>> for NULL.  bitmap_top is the  *)
(* line of the first row, the rows below it follow in the buffer.          *)

FT_PALETTE_FOR_DARK_BACKGROUND == 2

\* FT_ALLOC: a zero-filled block of `size' bytes, or an error
FT_ALLOC(size, ok) ==
    IF ok THEN [error |-> "Ok", block |-> Zeros(size)]
    ELSE [error |-> "Out_Of_Memory", block |-> <<>>]

\* the slot's buffer is replaced by a block of `size' bytes
ft_glyphslot_alloc_bitmap(slot, size, ok) ==
    LET a == FT_ALLOC(size, ok) IN
    [error |-> a.error, slot |-> [slot EXCEPT !.buffer = a.block]]

\* lines 589-609: the first component sets the canvas
InitCanvas(dst, src, ok) ==
    LET d1 == [dst EXCEPT !.bitmap_left = src.bitmap_left,
                          !.bitmap_top  = src.bitmap_top,
                          !.width       = src.width,
                          !.rows        = src.rows,
                          !.pixel_mode  = "FT_PIXEL_MODE_BGRA",
                          !.pitch       = src.width * 4,
                          !.num_grays   = 256]
        size == d1.rows * d1.pitch
        a    == ft_glyphslot_alloc_bitmap(d1, size, ok)
    IN  IF a.error # "Ok" THEN a
        ELSE [error |-> "Ok", slot |-> [a.slot EXCEPT !.buffer = Zeros(size)]]

\* lines 645-647: where the first old row goes in the new buffer, dropping
\* the column shift
CopyOriginNoShift(dst, x_min, y_max, pitch) ==
    pitch * (y_max - dst.bitmap_top)

\* lines 645-647: where the first old row goes in the new buffer
CopyOrigin(dst, x_min, y_max, pitch) ==
    pitch * (y_max - dst.bitmap_top) + 4 * (dst.bitmap_left - x_min)

\* lines 649-655: the old rows copied into buf from q on
CopyRows(dst, buf, q, pitch) ==
    [k \in 1..Len(buf) |->
        LET o == k - 1 - q
            y == o \div pitch
            j == o % pitch
        IN  IF o >= 0 /\ y < dst.rows /\ j < dst.width * 4
            THEN dst.buffer[dst.pitch * y + j + 1]
            ELSE buf[k]]

\* lines 610-669: the canvas grows to hold the new component
GrowCanvas(dst, src, ok) ==
    LET x_min == Min(dst.bitmap_left, src.bitmap_left)
        x_max == Max(dst.bitmap_left + dst.width, src.bitmap_left + src.width)
        y_min == Min(dst.bitmap_top - dst.rows, src.bitmap_top - src.rows)
        y_max == Max(dst.bitmap_top, src.bitmap_top)
    IN
    IF /\ x_min = dst.bitmap_left
       /\ x_max = dst.bitmap_left + dst.width
       /\ y_min = dst.bitmap_top - dst.rows
       /\ y_max = dst.bitmap_top
    THEN [error |-> "Ok", slot |-> dst]
    ELSE
    LET width == x_max - x_min
        rows  == y_max - y_min
        pitch == width * 4
        a     == FT_ALLOC(rows * pitch, ok)
    IN
    IF a.error # "Ok" THEN [error |-> a.error, slot |-> dst]
    ELSE [error |-> "Ok",
          slot  |-> [dst EXCEPT
                       !.buffer      = CopyRows(dst, a.block,
                                                CopyOrigin(dst, x_min, y_max,
                                                           pitch),
                                                pitch),
                       !.bitmap_top  = y_max,
                       !.bitmap_left = x_min,
                       !.width       = width,
                       !.rows        = rows,
                       !.pitch       = pitch]]

\* lines 671-708
LayerColor(fc, color_index) ==
    IF color_index = 65535
    THEN IF fc.have_foreground_color THEN fc.foreground_color
         ELSE IF /\ fc.palette_flags # <<>>
                 /\ (fc.palette_flags[fc.palette_index + 1]
                       \div FT_PALETTE_FOR_DARK_BACKGROUND) % 2 = 1
         THEN [blue |-> 255, green |-> 255, red |-> 255, alpha |-> 255]
         ELSE [blue |-> 0, green |-> 0, red |-> 0, alpha |-> 255]
    ELSE fc.palette[color_index + 1]

\* lines 735-738 with the division by 255 done as a shift by 8 bits
BlendChannelShift(f, ba2, d) ==
    ((d * ba2) \div 256 + f) % 256

\* lines 735-738: the byte d of the canvas under f, the premultiplied
\* channel of the color (fb, fg, fr) or fa; the sum is cast to FT_Byte
BlendChannel(f, ba2, d) ==
    ((d * ba2) \div 255 + f) % 256

\* lines 711-745: the component blended into the canvas
BlendLoop(dst, src, color) ==
    LET origin == dst.pitch * (dst.bitmap_top - src.bitmap_top)
                    + 4 * (src.bitmap_left - dst.bitmap_left)
    IN  [k \in 1..Len(dst.buffer) |->
            LET o  == k - 1 - origin
                y  == o \div dst.pitch
                x  == (o % dst.pitch) \div 4
                ch == o % 4
            IN  IF o >= 0 /\ y < src.rows /\ x < src.width
                THEN LET aa == src.buffer[src.pitch * y + x + 1]
                         fa == (color.alpha * aa) \div 255
                         f  == CASE ch = 0 -> (color.blue * fa) \div 255
                                 [] ch = 1 -> (color.green * fa) \div 255
                                 [] ch = 2 -> (color.red * fa) \div 255
                                 [] OTHER  -> fa
                     IN  BlendChannel(f, 255 - fa, dst.buffer[k])
                ELSE dst.buffer[k]]

\* lines 573-746
tt_face_colr_blend_layer(fc, color_index, dst, src, ok) ==
    LET c == IF dst.buffer = <<>> THEN InitCanvas(dst, src, ok)
             ELSE GrowCanvas(dst, src, ok)
    IN  IF c.error # "Ok" THEN c
        ELSE [error |-> "Ok",
              slot  |-> [c.slot EXCEPT
                           !.buffer = BlendLoop(c.slot, src,
                                                LayerColor(fc, color_index))]]

\* the components a caller composes: a grey bitmap of width x rows pixels
\* whose first pixel has coverage cov, the others less
SourceSlot(left, top, width, rows, cov) ==
    [buffer      |-> [k \in 1..(width * rows) |->
                        Max(0, cov - 100 * ((k - 1) % width)
                                   - 60 * ((k - 1) \div width))],
     bitmap_left |-> left,
     bitmap_top  |-> top,
     width       |-> width,
     rows        |-> rows,
     pitch       |-> width,
     pixel_mode  |-> "FT_PIXEL_MODE_GRAY",
     num_grays   |-> 256]

\* <<width, rows>> of the drawn components
Shapes == {<<1, 1>>, <<2, 1>>, <<1, 2>>}
Coverages == {255, 100}
ColorIndices == {0, 1, 65535}

\* the slot before the first component is composed
EmptySlot ==
    [buffer      |-> <<>>,
     bitmap_left |-> 0,
     bitmap_top  |-> 0,
     width       |-> 0,
     rows        |-> 0,
     pitch       |-> 0,
     pixel_mode  |-> "FT_PIXEL_MODE_NONE",
     num_grays   |-> 0]

\* opaque red, and a translucent color
Palette ==
    <<[blue |-> 0, green |-> 0, red |-> 255, alpha |-> 255],
      [blue |-> 200, green |-> 30, red |-> 10, alpha |-> 128]>>

InitBlend ==
    /\ mem = <<>>
    /\ table_size = 0
    /\ ulong_bits = 64
    /\ colr = <<>>
    /\ read_end = 0
    /\ iterator = NoIterator
    /\ paint = NoPaint
    /\ history = NoHistory
    /\ \E fg \in BOOLEAN, flags \in {<<>>, <<0>>, <<3>>} :
          /\ fg => flags = <<>>
          /\ face = [cpal |-> TRUE, num_glyphs |-> NumGlyphs,
                     num_palette_entries |-> NumPaletteEntries,
                     have_foreground_color |-> fg,
                     foreground_color |->
                         [blue |-> 7, green |-> 77, red |-> 177,
                          alpha |-> 255],
                     palette_flags |-> flags,
                     palette_index |-> 0,
                     palette |-> Palette]
    /\ dstSlot = EmptySlot
    /\ call = [name |-> "none", error |-> "Ok", color_index |-> 0,
               srcSlot |-> EmptySlot, before |-> EmptySlot]

\* the caller's variables after a call that ended as r
BlendReturn(r, color_index, src) ==
    /\ dstSlot' = r.slot
    /\ call' = [name |-> "tt_face_colr_blend_layer", error |-> r.error,
                color_index |-> color_index, srcSlot |-> src,
                before |-> dstSlot]
    /\ history' = [history EXCEPT !.calls = @ + 1]

\* a caller composes the next component, and gives up on an error
BlendLayer ==
    /\ call.error = "Ok"
    /\ history.calls < MaxBlends
    /\ \E left \in 0..1, top \in 1..2, shape \in Shapes, cov \in Coverages,
          color_index \in ColorIndices, ok \in BOOLEAN :
          BlendReturn(tt_face_colr_blend_layer(
                          face, color_index, dstSlot,
                          SourceSlot(left, top, shape[1], shape[2], cov),
                          ok),
                      color_index,
                      SourceSlot(left, top, shape[1], shape[2], cov))
    /\ UNCHANGED <<mem, table_size, ulong_bits, face, colr, read_end,
                   iterator, paint>>

NextBlend == BlendLayer

SpecBlend == InitBlend /\ [][NextBlend]_vars

\* the pixels of a slot by their position: column x, line y
Columns(s) == s.bitmap_left .. (s.bitmap_left + s.width - 1)
Lines(s) == (s.bitmap_top - s.rows + 1) .. s.bitmap_top
Covers(s, x, y) == s.buffer # <<>> /\ x \in Columns(s) /\ y \in Lines(s)
PixelAt(s, x, y) ==
    LET o == s.pitch * (s.bitmap_top - y) + 4 * (x - s.bitmap_left)
    IN  <<s.buffer[o + 1], s.buffer[o + 2], s.buffer[o + 3], s.buffer[o + 4]>>
CoverageAt(s, x, y) ==
    s.buffer[s.pitch * (s.bitmap_top - y) + (x - s.bitmap_left) + 1]
Blended == call.name = "tt_face_colr_blend_layer" /\ call.error = "Ok"

\* C7: every pixel of the component's footprint holds, after the blend,
\* dst*(255-fa)/255 + c*fa/255 per color channel and dst_a*(255-fa)/255 + fa
\* for alpha, with fa = alpha*aa/255 and truncating divisions, over the
\* value the pixel had before (zero where the canvas did not reach); with
\* color alpha 255 and coverage 255 that is exactly (b, g, r, 255).
C7_BlendFormula ==
    Blended =>
        \A x \in Columns(call.srcSlot), y \in Lines(call.srcSlot) :
           LET color == LayerColor(face, call.color_index)
               aa    == CoverageAt(call.srcSlot, x, y)
               fa    == (color.alpha * aa) \div 255
               inv   == 255 - fa
               old   == IF Covers(call.before, x, y)
                        THEN PixelAt(call.before, x, y)
                        ELSE <<0, 0, 0, 0>>
               new   == PixelAt(dstSlot, x, y)
           IN  /\ new[1] = (old[1] * inv) \div 255 + (color.blue * fa) \div 255
               /\ new[2] = (old[2] * inv) \div 255 + (color.green * fa) \div 255
               /\ new[3] = (old[3] * inv) \div 255 + (color.red * fa) \div 255
               /\ new[4] = (old[4] * inv) \div 255 + fa
               /\ (color.alpha = 255 /\ aa = 255) =>
                     new = <<color.blue, color.green, color.red, 255>>

\* an opaque red 1x1 component of full coverage went onto the empty canvas
C7_Witness ==
    /\ Blended
    /\ call.before.buffer = <<>>
    /\ call.color_index = 0
    /\ call.srcSlot.buffer = <<255>>
    /\ dstSlot.buffer = <<0, 0, 255, 255>>

\* the component's footprint is not inside the canvas the call was given
Outgrown ==
    /\ Blended
    /\ call.before.buffer # <<>>
    /\ \E x \in Columns(call.srcSlot), y \in Lines(call.srcSlot) :
          ~Covers(call.before, x, y)

\* C8: a component reaching outside a non-empty canvas makes the canvas the
\* union bounding box of both; every pixel of the old canvas outside the
\* component's footprint keeps its BGRA value at its position, and the
\* pixels outside both the old canvas and the footprint are zero.
C8_GrowthKeepsPixels ==
    Outgrown =>
        LET old == call.before
            src == call.srcSlot
            x_min == Min(old.bitmap_left, src.bitmap_left)
            x_max == Max(old.bitmap_left + old.width,
                         src.bitmap_left + src.width)
            y_min == Min(old.bitmap_top - old.rows,
                         src.bitmap_top - src.rows)
            y_max == Max(old.bitmap_top, src.bitmap_top)
        IN  /\ dstSlot.bitmap_left = x_min
            /\ dstSlot.bitmap_top = y_max
            /\ dstSlot.width = x_max - x_min
            /\ dstSlot.rows = y_max - y_min
            /\ dstSlot.pitch = 4 * (x_max - x_min)
            /\ Len(dstSlot.buffer) = 4 * (x_max - x_min) * (y_max - y_min)
            /\ \A x \in Columns(dstSlot), y \in Lines(dstSlot) :
                  \/ Covers(src, x, y)
                  \/ PixelAt(dstSlot, x, y) =
                        IF Covers(old, x, y) THEN PixelAt(old, x, y)
                        ELSE <<0, 0, 0, 0>>

\* the canvas grew to the left and upwards around a painted pixel, and a
\* corner of the new canvas belongs to neither
C8_Witness ==
    /\ Outgrown
    /\ dstSlot.bitmap_left < call.before.bitmap_left
    /\ dstSlot.bitmap_top > call.before.bitmap_top
    /\ \E x \in Columns(call.before), y \in Lines(call.before) :
          /\ ~Covers(call.srcSlot, x, y)
          /\ PixelAt(call.before, x, y) # <<0, 0, 0, 0>>
    /\ \E x \in Columns(dstSlot), y \in Lines(dstSlot) :
          ~Covers(call.srcSlot, x, y) /\ ~Covers(call.before, x, y)

\* C9: a call that returns an error because the buffer could not be
\* allocated leaves the canvas as it was: buffer, origin, width, rows,
\* pitch and pixel mode.
C9_FailedAllocKeepsCanvas ==
    (call.name = "tt_face_colr_blend_layer" /\ call.error # "Ok") =>
        /\ dstSlot.buffer = call.before.buffer
        /\ dstSlot.bitmap_left = call.before.bitmap_left
        /\ dstSlot.bitmap_top = call.before.bitmap_top
        /\ dstSlot.width = call.before.width
        /\ dstSlot.rows = call.before.rows
        /\ dstSlot.pitch = call.before.pitch
        /\ dstSlot.pixel_mode = call.before.pixel_mode

====
